---- MODULE Spec2Model ----
(***************************************************************************)
(* The four DLMM CPI instructions of programs/cpi-example                  *)
(* (add_liquidity_one_side, remove_liquidity, remove_all_liquidity,        *)
(* close_position) acting on one position of one pool.                     *)
(*                                                                         *)
(* Each instruction is Anchor's account validation of its #[derive(        *)
(* Accounts)] struct followed by the handler body, which copies every      *)
(* account and argument into one CPI to the DLMM program and returns the   *)
(* CPI's result.  The DLMM program itself is not part of the source tree;  *)
(* its effect on the position is modelled from the specification and the   *)
(* handlers' doc comments.                                                 *)
(***************************************************************************)
EXTENDS Integers, Sequences, FiniteSets, TLC

\* ------------------------------------------------------------- bounds
\* Bin ids the callers of the model draw from: -BinRadius .. BinRadius.
BinRadius == 1
\* Longest weighted distribution / reduction table a caller passes.
MaxEntries == 2

\* ------------------------------------------------- program constants
\* Bins per bin array ("floor(lower_bin_id / 70)").
MAX_BIN_PER_ARRAY == 70
\* Basis points denoting full removal ("basis points out of 10000").
BASIS_POINT_MAX == 10000

\* dlmm::ID, the address the dlmm_program account is constrained to.
DLMM_ID == "dlmm"

BinIds == (0 - BinRadius)..BinRadius

\* floor(bin_id / 70); \div rounds toward negative infinity.
BinArrayIndex(bin_id) == bin_id \div MAX_BIN_PER_ARRAY

\* ------------------------------------------------------------ accounts
\* The pool the position was opened on (the lb_pair stored inside position),
\* and another pool a caller may pass instead.
POSITION_LB_PAIR == "lb_pair"
Pools == {POSITION_LB_PAIR, "other_lb_pair"}
Programs == {DLMM_ID, "other_program"}

\* A bin array account: PDA ["bin_array", lb_pair, index].
BinArrayAccount(pool, index) == [lb_pair |-> pool, index |-> index]
BinArrayAccounts ==
    {BinArrayAccount(p, BinArrayIndex(b)) : p \in Pools, b \in BinIds}

\* Optional bin_array_bitmap_extension: None or the pool's extension account.
BitmapExtensions == {"None", "bitmap_extension"}

VARIABLES
    lower_bin_id,   \* position.lower_bin_id
    upper_bin_id,   \* position.upper_bin_id
    liquid,         \* bins of the position holding non-zero liquidity
    fee_pending,    \* the position has unclaimed swap fees
    closed,         \* the position account has been closed
    call,           \* the instruction being executed (accounts and arguments)
    handed,         \* the CPIs the instruction made, in order
    replied,        \* what the invoked program answered to the CPI
    result,         \* what the instruction returned
    before          \* the position as it was when the instruction began

vars == <<lower_bin_id, upper_bin_id, liquid, fee_pending, closed,
          call, handed, replied, result, before>>

engine == <<lower_bin_id, upper_bin_id, liquid, fee_pending, closed>>

NoCall == [op |-> "none"]
NoSnapshot == [liquid |-> {}, fee_pending |-> FALSE, closed |-> FALSE]
Snapshot == [liquid |-> liquid, fee_pending |-> fee_pending, closed |-> closed]

\* The accounts every instruction takes.  CanonicalAccounts is the bundle the
\* /// CHECK comments ask for; a caller passes it with at most one account
\* changed (another pool, another bin array, no signature, another program,
\* the optional bitmap extension supplied).
Differences(a, b) == Cardinality({f \in DOMAIN a : a[f] # b[f]})

CanonicalAccounts ==
    [lb_pair          |-> POSITION_LB_PAIR,
     bin_array_lower  |-> BinArrayAccount(POSITION_LB_PAIR, BinArrayIndex(lower_bin_id)),
     bin_array_upper  |-> BinArrayAccount(POSITION_LB_PAIR, BinArrayIndex(upper_bin_id)),
     sender_is_signer |-> TRUE,
     dlmm_program     |-> DLMM_ID,
     bin_array_bitmap_extension |-> "None"]

AccountChoices ==
    {a \in [lb_pair          : Pools,
            bin_array_lower  : BinArrayAccounts,
            bin_array_upper  : BinArrayAccounts,
            sender_is_signer : BOOLEAN,
            dlmm_program     : Programs,
            bin_array_bitmap_extension : BitmapExtensions] :
        Differences(a, CanonicalAccounts) <= 1}

\* ----------------------------------------------------------- arguments
Lists(S, n) == UNION {[1..k -> S] : k \in 0..n}

\* u64 amount, in base units.
Amounts == {1000}
\* i32 max_active_bin_slippage.
Slippages == {-1, 0, 1}
\* dlmm::types::BinLiquidityDistributionByWeight { bin_id: i32, weight: u16 }
Weights == {1}
BinLiquidityDistributionByWeight == [bin_id : BinIds, weight : Weights]
\* dlmm::types::BinLiquidityReduction { bin_id: i32, bps_to_remove: u16 }
\* Half, all, and one more than all.
BpsChoices == {BASIS_POINT_MAX \div 2, BASIS_POINT_MAX, BASIS_POINT_MAX + 1}
BinLiquidityReduction == [bin_id : BinIds, bps_to_remove : BpsChoices]

\* The deposited token: its mint and the pool reserve that goes with it.
Sides == {"x", "y"}
MintOf(side) == IF side = "x" THEN "token_x_mint" ELSE "token_y_mint"
ReserveOf(side) == IF side = "x" THEN "reserve_x" ELSE "reserve_y"

\* ------------------------------------------------- instruction inputs
\* A caller of the model passes the canonical accounts with any arguments,
\* or one changed account with the plain arguments below.
AddLiquidityOneSideArgs(n) ==
    [side : Sides, amount : Amounts, active_id : BinIds,
     max_active_bin_slippage : Slippages,
     bin_liquidity_dist : Lists(BinLiquidityDistributionByWeight, n)]

\* Token Y into the lowest bin of the position, the active bin at its top.
PlainAddLiquidityOneSideArgs ==
    [side |-> "y", amount |-> 1000, active_id |-> upper_bin_id,
     max_active_bin_slippage |-> 0,
     bin_liquidity_dist |-> <<[bin_id |-> lower_bin_id, weight |-> 1]>>]

\* All of the liquidity of the lowest bin of the position.
PlainBinLiquidityRemoval ==
    <<[bin_id |-> lower_bin_id, bps_to_remove |-> BASIS_POINT_MAX]>>

AddLiquidityOneSideCall(a, p) ==
     [op |-> "add_liquidity_one_side",
      position |-> "position",
      lb_pair |-> a.lb_pair,
      bin_array_bitmap_extension |-> a.bin_array_bitmap_extension,
      user_token |-> "user_token",
      reserve |-> ReserveOf(p.side),
      token_mint |-> MintOf(p.side),
      bin_array_lower |-> a.bin_array_lower,
      bin_array_upper |-> a.bin_array_upper,
      sender |-> "sender",
      sender_is_signer |-> a.sender_is_signer,
      dlmm_program |-> a.dlmm_program,
      event_authority |-> "event_authority",
      token_program |-> "token_program",
      amount |-> p.amount,
      active_id |-> p.active_id,
      max_active_bin_slippage |-> p.max_active_bin_slippage,
      bin_liquidity_dist |-> p.bin_liquidity_dist]

AddLiquidityOneSideCalls(n) ==
    {AddLiquidityOneSideCall(x[1], x[2]) :
        x \in {y \in AccountChoices \X AddLiquidityOneSideArgs(n) :
                 y[1] = CanonicalAccounts \/ y[2] = PlainAddLiquidityOneSideArgs}}

WithdrawAccounts(op, a) ==
    [op |-> op,
     position |-> "position",
     lb_pair |-> a.lb_pair,
     bin_array_bitmap_extension |-> a.bin_array_bitmap_extension,
     user_token_x |-> "user_token_x",
     user_token_y |-> "user_token_y",
     reserve_x |-> "reserve_x",
     reserve_y |-> "reserve_y",
     token_x_mint |-> "token_x_mint",
     token_y_mint |-> "token_y_mint",
     bin_array_lower |-> a.bin_array_lower,
     bin_array_upper |-> a.bin_array_upper,
     sender |-> "sender",
     sender_is_signer |-> a.sender_is_signer,
     dlmm_program |-> a.dlmm_program,
     event_authority |-> "event_authority",
     token_x_program |-> "token_x_program",
     token_y_program |-> "token_y_program"]

RemoveLiquidityCalls(n) ==
    {WithdrawAccounts("remove_liquidity", x[1]) @@ ("bin_liquidity_removal" :> x[2]) :
        x \in {y \in AccountChoices \X Lists(BinLiquidityReduction, n) :
                 y[1] = CanonicalAccounts \/ y[2] = PlainBinLiquidityRemoval}}

RemoveAllLiquidityCalls ==
    {WithdrawAccounts("remove_all_liquidity", a) : a \in AccountChoices}

ClosePositionCalls ==
    {[op |-> "close_position",
      position |-> "position",
      lb_pair |-> a.lb_pair,
      bin_array_lower |-> a.bin_array_lower,
      bin_array_upper |-> a.bin_array_upper,
      sender |-> "sender",
      sender_is_signer |-> a.sender_is_signer,
      rent_receiver |-> "rent_receiver",
      dlmm_program |-> a.dlmm_program,
      event_authority |-> "event_authority"] :
        a \in {b \in AccountChoices : b.bin_array_bitmap_extension = "None"}}

\* ------------------------------------------- Anchor account validation
\* What #[derive(Accounts)] checks before the handler runs, in field order:
\* `sender: Signer` must have signed, `dlmm_program` must be at dlmm::ID.
\* Every other account is an UncheckedAccount.
\* DlmmAddLiquidityOneSide with the address constraint on dlmm_program left out.
DlmmAddLiquidityOneSideAnyProgram(c) ==
    IF ~c.sender_is_signer THEN "AccountNotSigner" ELSE "Ok"

DlmmAddLiquidityOneSide(c) ==
    IF ~c.sender_is_signer THEN "AccountNotSigner"
    ELSE IF c.dlmm_program # DLMM_ID THEN "ConstraintAddress"
    ELSE "Ok"

DlmmRemoveLiquidity(c) ==
    IF ~c.sender_is_signer THEN "AccountNotSigner"
    ELSE IF c.dlmm_program # DLMM_ID THEN "ConstraintAddress"
    ELSE "Ok"

\* DlmmRemoveAllLiquidity refusing a position that holds no liquidity.
DlmmRemoveAllLiquidityNeedsLiquidity(c) ==
    IF ~c.sender_is_signer THEN "AccountNotSigner"
    ELSE IF c.dlmm_program # DLMM_ID THEN "ConstraintAddress"
    ELSE IF liquid = {} THEN "PositionEmpty"
    ELSE "Ok"

DlmmRemoveAllLiquidity(c) ==
    IF ~c.sender_is_signer THEN "AccountNotSigner"
    ELSE IF c.dlmm_program # DLMM_ID THEN "ConstraintAddress"
    ELSE "Ok"

DlmmClosePosition(c) ==
    IF ~c.sender_is_signer THEN "AccountNotSigner"
    ELSE IF c.dlmm_program # DLMM_ID THEN "ConstraintAddress"
    ELSE "Ok"

\* -------------------------------------------------- the CPIs built
\* dlmm::cpi::accounts::AddLiquidityOneSide + LiquidityOneSideParameter,
\* in a CpiContext addressed to the dlmm_program account.
AddLiquidityOneSideCpi(c) ==
    [program |-> c.dlmm_program,
     instruction |-> "add_liquidity_one_side",
     accounts |->
        [position |-> c.position,
         lb_pair |-> c.lb_pair,
         bin_array_bitmap_extension |-> c.bin_array_bitmap_extension,
         user_token |-> c.user_token,
         reserve |-> c.reserve,
         token_mint |-> c.token_mint,
         bin_array_lower |-> c.bin_array_lower,
         bin_array_upper |-> c.bin_array_upper,
         sender |-> c.sender,
         sender_is_signer |-> c.sender_is_signer,
         token_program |-> c.token_program,
         event_authority |-> c.event_authority,
         program |-> c.dlmm_program],
     args |->
        [amount |-> c.amount,
         active_id |-> c.active_id,
         max_active_bin_slippage |-> c.max_active_bin_slippage,
         bin_liquidity_dist |-> c.bin_liquidity_dist]]

\* WithdrawCpiAccounts with the two reserves in each other's role.
WithdrawCpiAccountsReservesSwapped(c) ==
    [position |-> c.position,
     lb_pair |-> c.lb_pair,
     bin_array_bitmap_extension |-> c.bin_array_bitmap_extension,
     user_token_x |-> c.user_token_x,
     user_token_y |-> c.user_token_y,
     reserve_x |-> c.reserve_y,
     reserve_y |-> c.reserve_x,
     token_x_mint |-> c.token_x_mint,
     token_y_mint |-> c.token_y_mint,
     bin_array_lower |-> c.bin_array_lower,
     bin_array_upper |-> c.bin_array_upper,
     sender |-> c.sender,
     sender_is_signer |-> c.sender_is_signer,
     token_x_program |-> c.token_x_program,
     token_y_program |-> c.token_y_program,
     event_authority |-> c.event_authority,
     program |-> c.dlmm_program]

WithdrawCpiAccounts(c) ==
    [position |-> c.position,
     lb_pair |-> c.lb_pair,
     bin_array_bitmap_extension |-> c.bin_array_bitmap_extension,
     user_token_x |-> c.user_token_x,
     user_token_y |-> c.user_token_y,
     reserve_x |-> c.reserve_x,
     reserve_y |-> c.reserve_y,
     token_x_mint |-> c.token_x_mint,
     token_y_mint |-> c.token_y_mint,
     bin_array_lower |-> c.bin_array_lower,
     bin_array_upper |-> c.bin_array_upper,
     sender |-> c.sender,
     sender_is_signer |-> c.sender_is_signer,
     token_x_program |-> c.token_x_program,
     token_y_program |-> c.token_y_program,
     event_authority |-> c.event_authority,
     program |-> c.dlmm_program]

RemoveLiquidityCpi(c) ==
    [program |-> c.dlmm_program,
     instruction |-> "remove_liquidity",
     accounts |-> WithdrawCpiAccounts(c),
     args |-> [bin_liquidity_removal |-> c.bin_liquidity_removal]]

RemoveAllLiquidityCpi(c) ==
    [program |-> c.dlmm_program,
     instruction |-> "remove_all_liquidity",
     accounts |-> WithdrawCpiAccounts(c),
     args |-> [none |-> "none"]]

ClosePositionCpi(c) ==
    [program |-> c.dlmm_program,
     instruction |-> "close_position",
     accounts |->
        [position |-> c.position,
         lb_pair |-> c.lb_pair,
         bin_array_lower |-> c.bin_array_lower,
         bin_array_upper |-> c.bin_array_upper,
         sender |-> c.sender,
         sender_is_signer |-> c.sender_is_signer,
         rent_receiver |-> c.rent_receiver,
         event_authority |-> c.event_authority,
         program |-> c.dlmm_program],
     args |-> [none |-> "none"]]

\* ------------------------------------------------------ the handlers
\* Each handler builds its CPI, makes it once, and returns the CPI's result
\* as its own.  `reply` is what the invoked program answered.
\* handle_dlmm_add_liquidity_one_side making the CPI again when it failed.
handle_dlmm_add_liquidity_one_side_retrying(c, reply) ==
    [handed |-> IF reply = "Ok"
                THEN <<AddLiquidityOneSideCpi(c)>>
                ELSE <<AddLiquidityOneSideCpi(c), AddLiquidityOneSideCpi(c)>>,
     result |-> reply]

handle_dlmm_add_liquidity_one_side(c, reply) ==
    [handed |-> <<AddLiquidityOneSideCpi(c)>>, result |-> reply]

handle_dlmm_remove_liquidity(c, reply) ==
    [handed |-> <<RemoveLiquidityCpi(c)>>, result |-> reply]

handle_dlmm_remove_all_liquidity(c, reply) ==
    [handed |-> <<RemoveAllLiquidityCpi(c)>>, result |-> reply]

\* handle_dlmm_close_position dropping the CPI's result and returning Ok(()).
handle_dlmm_close_position_ignoring_result(c, reply) ==
    [handed |-> <<ClosePositionCpi(c)>>, result |-> "Ok"]

handle_dlmm_close_position(c, reply) ==
    [handed |-> <<ClosePositionCpi(c)>>, result |-> reply]

\* ------------------------------------------------- the DLMM program
\* The invoked program's checks and effects on the position.

InPosition(bin_id) == lower_bin_id <= bin_id /\ bin_id <= upper_bin_id

\* position, lb_pair and bin arrays cross-reference, and the owner signed.
EngineIdentityOk(cpi) ==
    /\ cpi.accounts.lb_pair = POSITION_LB_PAIR
    /\ cpi.accounts.bin_array_lower =
          BinArrayAccount(POSITION_LB_PAIR, BinArrayIndex(lower_bin_id))
    /\ cpi.accounts.bin_array_upper =
          BinArrayAccount(POSITION_LB_PAIR, BinArrayIndex(upper_bin_id))
    /\ cpi.accounts.sender_is_signer

\* Token X goes strictly above the active bin, token Y at or below it.
EngineSideOk(token_mint, active_id, bin_id) ==
    IF token_mint = "token_x_mint" THEN bin_id > active_id ELSE bin_id <= active_id

EngineArgsOk(cpi) ==
    CASE cpi.instruction = "add_liquidity_one_side" ->
            /\ cpi.args.max_active_bin_slippage >= 0
            /\ \A i \in DOMAIN cpi.args.bin_liquidity_dist :
                  LET e == cpi.args.bin_liquidity_dist[i] IN
                  /\ InPosition(e.bin_id)
                  /\ EngineSideOk(cpi.accounts.token_mint, cpi.args.active_id, e.bin_id)
      [] cpi.instruction = "remove_liquidity" ->
            \A i \in DOMAIN cpi.args.bin_liquidity_removal :
                  LET e == cpi.args.bin_liquidity_removal[i] IN
                  /\ InPosition(e.bin_id)
                  /\ e.bps_to_remove <= BASIS_POINT_MAX
      [] OTHER -> TRUE

EngineAdmits(cpi) == ~closed /\ EngineIdentityOk(cpi) /\ EngineArgsOk(cpi)

\* What the invoked program may answer.  A program other than DLMM answers
\* anything; DLMM refuses what it does not admit, refuses to close a position
\* that still holds liquidity or unclaimed fees, and may fail for reasons of
\* its own (balances, moved active bin).
EngineReplies(cpi) ==
    IF cpi.program # DLMM_ID THEN {"Ok", "SettlementError"}
    ELSE IF ~EngineAdmits(cpi) THEN {"SettlementError"}
    ELSE IF cpi.instruction = "close_position" /\ (liquid # {} \/ fee_pending)
         THEN {"PositionNotEmpty"}
    ELSE {"Ok", "SettlementError"}

EngineLiquidAfter(cpi) ==
    CASE cpi.instruction = "add_liquidity_one_side" ->
            liquid \cup {cpi.args.bin_liquidity_dist[i].bin_id :
                            i \in DOMAIN cpi.args.bin_liquidity_dist}
      [] cpi.instruction = "remove_liquidity" ->
            liquid \ {cpi.args.bin_liquidity_removal[i].bin_id :
                        i \in {j \in DOMAIN cpi.args.bin_liquidity_removal :
                                cpi.args.bin_liquidity_removal[j].bps_to_remove
                                    = BASIS_POINT_MAX}}
      [] cpi.instruction = "remove_all_liquidity" -> {}
      [] OTHER -> liquid

\* The state change of one instruction: the first CPI made, if it went to
\* DLMM and DLMM answered Ok, takes effect as a whole; nothing else changes
\* anything.
EngineStep(cpis, reply) ==
    IF cpis # <<>> /\ cpis[1].program = DLMM_ID /\ reply = "Ok"
    THEN /\ liquid' = EngineLiquidAfter(cpis[1])
         /\ closed' = (cpis[1].instruction = "close_position")
         /\ UNCHANGED <<lower_bin_id, upper_bin_id, fee_pending>>
    ELSE UNCHANGED engine

\* ---------------------------------------------------------- actions
Init ==
    /\ lower_bin_id \in BinIds
    /\ upper_bin_id \in BinIds
    /\ lower_bin_id <= upper_bin_id
    /\ liquid = {}
    /\ fee_pending = FALSE
    /\ closed = FALSE
    /\ call = NoCall
    /\ handed = <<>>
    /\ replied = "none"
    /\ result = "none"
    /\ before = NoSnapshot

AddLiquidityOneSide(c) ==
    /\ call = NoCall
    /\ call' = c
    /\ before' = Snapshot
    /\ IF DlmmAddLiquidityOneSide(c) # "Ok"
       THEN /\ handed' = <<>>
            /\ replied' = "none"
            /\ result' = DlmmAddLiquidityOneSide(c)
            /\ UNCHANGED engine
       ELSE \E reply \in EngineReplies(AddLiquidityOneSideCpi(c)) :
            LET out == handle_dlmm_add_liquidity_one_side(c, reply) IN
            /\ handed' = out.handed
            /\ replied' = reply
            /\ result' = out.result
            /\ EngineStep(out.handed, reply)

RemoveLiquidity(c) ==
    /\ call = NoCall
    /\ call' = c
    /\ before' = Snapshot
    /\ IF DlmmRemoveLiquidity(c) # "Ok"
       THEN /\ handed' = <<>>
            /\ replied' = "none"
            /\ result' = DlmmRemoveLiquidity(c)
            /\ UNCHANGED engine
       ELSE \E reply \in EngineReplies(RemoveLiquidityCpi(c)) :
            LET out == handle_dlmm_remove_liquidity(c, reply) IN
            /\ handed' = out.handed
            /\ replied' = reply
            /\ result' = out.result
            /\ EngineStep(out.handed, reply)

RemoveAllLiquidity(c) ==
    /\ call = NoCall
    /\ call' = c
    /\ before' = Snapshot
    /\ IF DlmmRemoveAllLiquidity(c) # "Ok"
       THEN /\ handed' = <<>>
            /\ replied' = "none"
            /\ result' = DlmmRemoveAllLiquidity(c)
            /\ UNCHANGED engine
       ELSE \E reply \in EngineReplies(RemoveAllLiquidityCpi(c)) :
            LET out == handle_dlmm_remove_all_liquidity(c, reply) IN
            /\ handed' = out.handed
            /\ replied' = reply
            /\ result' = out.result
            /\ EngineStep(out.handed, reply)

ClosePosition(c) ==
    /\ call = NoCall
    /\ call' = c
    /\ before' = Snapshot
    /\ IF DlmmClosePosition(c) # "Ok"
       THEN /\ handed' = <<>>
            /\ replied' = "none"
            /\ result' = DlmmClosePosition(c)
            /\ UNCHANGED engine
       ELSE \E reply \in EngineReplies(ClosePositionCpi(c)) :
            LET out == handle_dlmm_close_position(c, reply) IN
            /\ handed' = out.handed
            /\ replied' = reply
            /\ result' = out.result
            /\ EngineStep(out.handed, reply)

\* A swap through a bin the position has liquidity in accrues a fee to it.
Swap ==
    /\ call = NoCall
    /\ ~closed
    /\ liquid # {}
    /\ ~fee_pending
    /\ fee_pending' = TRUE
    /\ UNCHANGED <<lower_bin_id, upper_bin_id, liquid, closed,
                   call, handed, replied, result, before>>

\* claim_fee, step 2 of the exit sequence: the accrued fees are paid out.
ClaimFee ==
    /\ call = NoCall
    /\ ~closed
    /\ fee_pending
    /\ fee_pending' = FALSE
    /\ UNCHANGED <<lower_bin_id, upper_bin_id, liquid, closed,
                   call, handed, replied, result, before>>

\* The transaction ends: the instruction's result has gone to the caller and
\* nothing of the call is kept (the program holds no state across calls).
Complete ==
    /\ call # NoCall
    /\ call' = NoCall
    /\ handed' = <<>>
    /\ replied' = "none"
    /\ result' = "none"
    /\ before' = NoSnapshot
    /\ UNCHANGED engine

\* Instructions are taken one at a time: the runtime serialises the
\* transactions that write the same position.
Idle == call = NoCall

Next ==
    \/ Idle /\ \E c \in AddLiquidityOneSideCalls(MaxEntries) : AddLiquidityOneSide(c)
    \/ Idle /\ \E c \in RemoveLiquidityCalls(MaxEntries) : RemoveLiquidity(c)
    \/ Idle /\ \E c \in RemoveAllLiquidityCalls : RemoveAllLiquidity(c)
    \/ Idle /\ \E c \in ClosePositionCalls : ClosePosition(c)
    \/ Swap
    \/ ClaimFee
    \/ Complete

Spec == Init /\ [][Next]_vars

\* ------------------------------------------------------- properties
Called == call # NoCall
HandedOff == handed # <<>>

\* The instruction passed Anchor's account validation.
SignedForDlmm(c) == c.sender_is_signer /\ c.dlmm_program = DLMM_ID

\* position, lb_pair and the two bin arrays cross-reference.
IdentityMatches(c) ==
    /\ c.lb_pair = POSITION_LB_PAIR
    /\ c.bin_array_lower = BinArrayAccount(POSITION_LB_PAIR, BinArrayIndex(lower_bin_id))
    /\ c.bin_array_upper = BinArrayAccount(POSITION_LB_PAIR, BinArrayIndex(upper_bin_id))

NoDuplicateBin(list) ==
    \A i, j \in DOMAIN list : i # j => list[i].bin_id # list[j].bin_id

EveryBin(list, P(_)) == \A i \in DOMAIN list : P(list[i].bin_id)

\* The bin a single-sided deposit of this call may go to, as the rule reads.
OnDepositSide(c, bin_id) ==
    IF c.token_mint = "token_x_mint"
    THEN c.active_id < bin_id /\ bin_id <= upper_bin_id
    ELSE lower_bin_id <= bin_id /\ bin_id <= c.active_id

WrongSide(c, bin_id) ==
    IF c.token_mint = "token_x_mint" THEN bin_id <= c.active_id ELSE bin_id > c.active_id

DepositRulesHold(c) ==
    /\ c.bin_liquidity_dist # <<>>
    /\ NoDuplicateBin(c.bin_liquidity_dist)
    /\ \A i \in DOMAIN c.bin_liquidity_dist :
          /\ InPosition(c.bin_liquidity_dist[i].bin_id)
          /\ ~WrongSide(c, c.bin_liquidity_dist[i].bin_id)
    /\ c.max_active_bin_slippage >= 0

ReductionRulesHold(c) ==
    /\ c.bin_liquidity_removal # <<>>
    /\ NoDuplicateBin(c.bin_liquidity_removal)
    /\ \A i \in DOMAIN c.bin_liquidity_removal :
          /\ InPosition(c.bin_liquidity_removal[i].bin_id)
          /\ c.bin_liquidity_removal[i].bps_to_remove <= BASIS_POINT_MAX

ValidationRulesHold(c) ==
    /\ IdentityMatches(c)
    /\ c.op = "add_liquidity_one_side" => DepositRulesHold(c)
    /\ c.op = "remove_liquidity" => ReductionRulesHold(c)

\* C1: a call whose inputs violate a validation rule (bin side, bin range,
\* empty or duplicated table, slippage bound, basis points, identity
\* cross-references) is rejected before any hand-off: nothing is handed to
\* the engine and the position is as it was.
C1_ValidationBeforeHandOff ==
    (Called /\ ~ValidationRulesHold(call)) =>
        (handed = <<>> /\ Snapshot = before)

\* C2: a single-sided deposit with a non-empty duplicate-free distribution is
\* accepted iff every bin is on the deposit's side of active_id and inside the
\* position; a bin on the wrong side is rejected as InvalidBinSide, a bin
\* outside [lower, upper] as BinOutOfRange.
C2_SingleSidedAdmission ==
    (/\ Called
     /\ call.op = "add_liquidity_one_side"
     /\ SignedForDlmm(call)
     /\ call.bin_liquidity_dist # <<>>
     /\ NoDuplicateBin(call.bin_liquidity_dist)) =>
        LET dist == call.bin_liquidity_dist
            OnSide(b) == OnDepositSide(call, b)
            Wrong(b) == WrongSide(call, b)
        IN  /\ HandedOff <=> EveryBin(dist, OnSide)
            /\ (EveryBin(dist, InPosition) /\ ~EveryBin(dist, OnSide))
                    => result = "InvalidBinSide"
            /\ (~EveryBin(dist, InPosition) /\ ~\E i \in DOMAIN dist : Wrong(dist[i].bin_id))
                    => result = "BinOutOfRange"

\* C3: remove-selective validation succeeds iff every bps_to_remove is at most
\* 10000, every bin_id is inside the position and no bin_id repeats; a
\* repeated bin_id is rejected as DuplicateBin and a bps value above 10000 as
\* BpsOutOfRange.
C3_ReductionAdmission ==
    (Called /\ call.op = "remove_liquidity" /\ SignedForDlmm(call)) =>
        LET table == call.bin_liquidity_removal
            BpsOk == \A i \in DOMAIN table : table[i].bps_to_remove <= BASIS_POINT_MAX
        IN  /\ HandedOff <=>
                (BpsOk /\ EveryBin(table, InPosition) /\ NoDuplicateBin(table))
            /\ (~NoDuplicateBin(table) /\ BpsOk /\ EveryBin(table, InPosition))
                    => result = "DuplicateBin"
            /\ (~BpsOk /\ NoDuplicateBin(table) /\ EveryBin(table, InPosition))
                    => result = "BpsOutOfRange"

\* C4: the bin arrays that accompany a hand-off are the shards with index
\* floor(lower_bin_id / 70) and floor(upper_bin_id / 70), floor taken toward
\* negative infinity.
C4_BinArraysAreFloorShards ==
    \A i \in DOMAIN handed :
        /\ handed[i].accounts.bin_array_lower.index = BinArrayIndex(lower_bin_id)
        /\ handed[i].accounts.bin_array_upper.index = BinArrayIndex(upper_bin_id)

\* C5: close succeeds only when every bin of the position holds zero
\* liquidity and the fees have been claimed; otherwise it fails (as
\* PositionNotEmpty when the call is otherwise in order) and the position
\* stays as it was; once the position is closed no operation on it succeeds
\* and it stays closed and empty.
C5_CloseOnlyWhenEmpty ==
    /\ closed => (liquid = {} /\ ~fee_pending)
    /\ Called =>
        /\ (call.op = "close_position" /\ result = "Ok") =>
                (before.liquid = {} /\ ~before.fee_pending /\ ~before.closed /\ closed)
        /\ (call.op = "close_position" /\ result # "Ok") => Snapshot = before
        /\ (/\ call.op = "close_position"
            /\ SignedForDlmm(call) /\ IdentityMatches(call)
            /\ ~before.closed
            /\ (before.liquid # {} \/ before.fee_pending)) =>
                result = "PositionNotEmpty"
        /\ before.closed => (result # "Ok" /\ Snapshot = before)

\* A closed position on which a further operation was attempted and handed
\* to the engine.
C5_Witness ==
    /\ Called
    /\ before.closed
    /\ HandedOff
    /\ call.op # "close_position"
    /\ result = "SettlementError"

\* C6: close is rejected as PositionIdentityMismatch, before any hand-off,
\* when the position does not belong to the supplied pool or the bin arrays
\* are not that pool's, whatever liquidity the position holds.
C6_CloseRejectsIdentityMismatch ==
    (Called /\ call.op = "close_position" /\ ~IdentityMatches(call)) =>
        (handed = <<>> /\ result = "PositionIdentityMismatch")

\* C7: remove_all is admitted on the accounts alone, an Empty position like a
\* funded one (it is handed off iff the sender signed and dlmm_program is
\* dlmm::ID), and after a successful remove_all every bin of the position
\* holds zero liquidity while the position stays open.
C7_RemoveAllIgnoresLiquidity ==
    (Called /\ call.op = "remove_all_liquidity") =>
        /\ HandedOff <=> (call.sender_is_signer /\ call.dlmm_program = DLMM_ID)
        /\ result = "Ok" => (liquid = {} /\ ~closed /\ fee_pending = before.fee_pending)
        /\ result # "Ok" => Snapshot = before

\* remove_all succeeded on a position that was already Empty.
C7_Witness ==
    /\ Called
    /\ call.op = "remove_all_liquidity"
    /\ before.liquid = {}
    /\ ~before.closed
    /\ result = "Ok"
    /\ liquid = {}
    /\ ~closed

\* C8: an operation hands off to the engine at most once and never retries;
\* what the engine answered (Ok, SettlementError, PositionNotEmpty) is what
\* the operation returns, unchanged.
C8_SingleHandOffResultUnchanged ==
    Called =>
        /\ Len(handed) <= 1
        /\ HandedOff => (result = replied /\ replied # "none")
        /\ ~HandedOff => (replied = "none" /\ result # "Ok")

\* The engine refused to close a position and the refusal came back as it was.
C8_Witness ==
    /\ Called
    /\ Len(handed) = 1
    /\ replied = "PositionNotEmpty"
    /\ result = "PositionNotEmpty"

\* C9: a fund-one-side call with a negative max_active_bin_slippage is
\* rejected as InvalidSlippageBound before hand-off; only calls with
\* max_active_bin_slippage >= 0 reach the engine.
C9_NegativeSlippageRejected ==
    /\ (Called /\ call.op = "add_liquidity_one_side"
            /\ call.max_active_bin_slippage < 0) =>
          (handed = <<>> /\ result = "InvalidSlippageBound")
    /\ \A i \in DOMAIN handed :
          handed[i].instruction = "add_liquidity_one_side" =>
              handed[i].args.max_active_bin_slippage >= 0

\* C10: every hand-off goes to the program at dlmm::ID and carries a sender
\* that signed; a call whose dlmm_program is another program, or whose sender
\* did not sign, is rejected before any hand-off and changes nothing.
C10_HandOffOnlyToDlmm ==
    /\ \A i \in DOMAIN handed :
          /\ handed[i].program = DLMM_ID
          /\ handed[i].accounts.program = DLMM_ID
          /\ handed[i].accounts.sender_is_signer
    /\ (Called /\ (call.dlmm_program # DLMM_ID \/ ~call.sender_is_signer)) =>
          /\ handed = <<>>
          /\ result \in {"AccountNotSigner", "ConstraintAddress"}
          /\ Snapshot = before

\* A call naming another program as dlmm_program, turned away.
C10_Witness ==
    /\ Called
    /\ call.dlmm_program # DLMM_ID
    /\ call.sender_is_signer
    /\ handed = <<>>
    /\ result = "ConstraintAddress"

\* The argument fields of each instruction, as the caller supplied them.
SuppliedArgs(c) ==
    CASE c.op = "add_liquidity_one_side" ->
            [amount |-> c.amount,
             active_id |-> c.active_id,
             max_active_bin_slippage |-> c.max_active_bin_slippage,
             bin_liquidity_dist |-> c.bin_liquidity_dist]
      [] c.op = "remove_liquidity" ->
            [bin_liquidity_removal |-> c.bin_liquidity_removal]
      [] OTHER -> [none |-> "none"]

\* C11: whenever an operation hands off, the engine receives exactly what the
\* caller supplied: the instruction of the operation, every account in the
\* role of the same name (the bitmap extension present iff supplied, the
\* dlmm_program account as `program`), and the arguments (amount, active_id,
\* max_active_bin_slippage, distribution; reduction table) unchanged in value
\* and in order.
C11_HandOffCarriesWhatWasSupplied ==
    \A i \in DOMAIN handed :
        LET cpi == handed[i] IN
        /\ cpi.instruction = call.op
        /\ DOMAIN cpi.accounts =
              ((DOMAIN call \ DOMAIN SuppliedArgs(call)) \ {"op", "dlmm_program"})
                  \cup {"program"}
        /\ \A role \in DOMAIN cpi.accounts \ {"program"} :
              cpi.accounts[role] = call[role]
        /\ cpi.accounts.program = call.dlmm_program
        /\ cpi.args = SuppliedArgs(call)

\* A deposit over two different bins, handed off.
C11_Witness ==
    /\ Called
    /\ HandedOff
    /\ call.op = "add_liquidity_one_side"
    /\ Len(call.bin_liquidity_dist) = 2
    /\ call.bin_liquidity_dist[1].bin_id # call.bin_liquidity_dist[2].bin_id
    /\ handed[1].args.bin_liquidity_dist = call.bin_liquidity_dist

====
